---- MODULE Spec2Model ----
(***************************************************************************)
(* Model of the agent orchestration pipeline of                            *)
(* supabase/functions/whatsapp-webhook/agent_manager.ts: the circuit       *)
(* breaker, the per-user rate limiter and runAgentRouter.                  *)
(*                                                                         *)
(* JavaScript runs one continuation at a time: the code between two awaits *)
(* is atomic.  An action of this model is therefore "the awaited external  *)
(* call settles, and the continuation runs up to the next await".          *)
(***************************************************************************)
EXTENDS Integers, Sequences, FiniteSets, TLC

----------------------------------------------------------------------------
(* Bounds of the model *)

\* concurrent callers of CircuitBreaker.execute in the breaker harness
NCallers == 2
\* execute calls issued in the breaker harness
MaxCalls == 7
\* clock steps; the clock advances by TickMs per step
MaxTicks == 2
\* checkRateLimit calls issued in the concurrent rate-limiter harness
MaxRlCalls == 4
\* checkRateLimit calls issued in the sequential rate-limiter harness
MaxSeqCalls == 12
\* runAgentRouter calls in progress at a time
NReqs == 1
\* runAgentRouter calls started, every collaborator failing at will
MaxSeqRuns == 2
\* runAgentRouter calls started during an outage of the Gemini service
MaxOutageRuns == 6
\* chunks one generation stream yields
MaxChunks == 2
\* embedContent calls counted per query hash
MaxEmbedCount == 2
\* concurrent checkRateLimit calls started on a window one request below the limit
MaxFullCalls == 3
\* length of the short messages validateInput is called with
MaxMsgLen == 6

----------------------------------------------------------------------------
(* Program constants *)

failureThreshold == 5
timeout == 60000
RATE_LIMIT_COUNT == 10
RATE_LIMIT_WINDOW_MS == 60 * 1000
MAX_INPUT_LENGTH == 2000
MIN_INPUT_LENGTH == 5
CHUNK_SIZE == 150
EMBEDDING_DIM == 768
FALLBACK_TEXT_LENGTH == 153

\* One clock step is one cooldown period, so that an age of exactly `timeout`
\* (not elapsed: the test is a strict >) and of 2 * timeout (elapsed) both occur.
TickMs == timeout

Callers == 1 .. NCallers
Users == {"u1", "u2"}
Reqs == 1 .. NReqs
\* user.data.user?.id is undefined
NoUser == "undefined"

Embedding == "Embedding Service"
Classification == "Classification Service"
Augmentation == "Augmentation Service"

VARIABLES
    now,            \* Date.now(), in ms
    geminiBreaker,  \* the single CircuitBreaker instance: failures, lastFailTime, state
    hConsec,        \* history: operations that failed since the last one that succeeded
    hLastFail,      \* history: time of the last failed operation
    hTrials,        \* history: operations invoked since the breaker last became HALF_OPEN
    bc,             \* breaker harness: per caller, position and outcome of its execute call
    bcCalls,        \* breaker harness: execute calls issued so far
    user_rate_limits, \* table user_rate_limits: user_id -> [request_count, window_start]
    hIncr,          \* history: per user, count updates stored since its window was (re)started
    hReqs,          \* history: per user, checkRateLimit calls issued
    hFirst,         \* history: per user, time of its first checkRateLimit call (-1: none yet)
    hHealthy,       \* history: per user, every store read and write of its calls succeeded
    rc,             \* rate-limiter harness: per caller, position and locals of checkRateLimit
    rlBudget,       \* rate-limiter harness: calls that may still be issued
    hFailCaps,      \* history: the services whose failures the breaker counts since the last success
    embedding_cache, \* table embedding_cache: query_hash -> [embedding, hit_count]
    detached,       \* store calls sent without await (lines 209, 223) that have not settled
    hEmbed,         \* history: query_hash -> embedContent calls that returned, their vectors
    rq,             \* per runAgentRouter call: the pending await, the locals, what it did so far
    runsLeft,       \* runAgentRouter calls that may still be started
    env,            \* the faults the collaborators of the run show, and "hook" when the
                    \* pending hook request is followed; never changes
    vi              \* one call of validateInput: its argument and what it returned or threw

breakerVars == <<geminiBreaker, hConsec, hLastFail, hTrials, hFailCaps>>
bcVars == <<bc, bcCalls>>
rateVars == <<user_rate_limits, hIncr>>
rcVars == <<rc, rlBudget, hReqs, hFirst, hHealthy>>
cacheVars == <<embedding_cache, detached, hEmbed>>
rqVars == <<rq, runsLeft, env>>
vars == <<now, vi, breakerVars, bcVars, rateVars, rcVars, cacheVars, rqVars>>

----------------------------------------------------------------------------
(* The collaborators: the store, the message delivery, the Gemini service *)

Faults == {"store", "delivery", "gemini"}

\* The outcomes (TRUE: success) a call to collaborator k can have in this run
Outcomes(k) == IF k \in env THEN BOOLEAN ELSE {TRUE}

----------------------------------------------------------------------------
(* CircuitBreaker *)

\* new CircuitBreaker(): the field initialisers
CircuitBreaker == [failures |-> 0, lastFailTime |-> 0, state |-> "CLOSED"]

\* execute, the guard before the try: the breaker after it, and whether fn is invoked
executeEntry(b, t) ==
    IF b.state = "OPEN"
    THEN IF t - b.lastFailTime > timeout
         THEN [breaker |-> [b EXCEPT !.state = "HALF_OPEN"], invoke |-> TRUE]
         ELSE [breaker |-> b, invoke |-> FALSE]
    ELSE [breaker |-> b, invoke |-> TRUE]

\* onSuccess closing the breaker without clearing the count
onSuccess_keepCount(b) == [b EXCEPT !.state = "CLOSED"]

\* lines 64-67
onSuccess(b) == [b EXCEPT !.failures = 0, !.state = "CLOSED"]

\* onFailure opening one failure early
onFailure_earlyOpen(b, t) ==
    LET f == b.failures + 1
    IN  [failures |-> f,
         lastFailTime |-> t,
         state |-> IF b.state # "OPEN" /\ f >= failureThreshold - 1 THEN "OPEN"
                   ELSE b.state]

\* onFailure leaving lastFailTime as it was
onFailure_keepTime(b, t) ==
    LET f == b.failures + 1
    IN  [failures |-> f,
         lastFailTime |-> b.lastFailTime,
         state |-> IF b.state # "OPEN" /\ f >= failureThreshold THEN "OPEN" ELSE b.state]

\* onFailure opening one failure late
onFailure_lateOpen(b, t) ==
    LET f == b.failures + 1
    IN  [failures |-> f,
         lastFailTime |-> t,
         state |-> IF b.state # "OPEN" /\ f > failureThreshold THEN "OPEN" ELSE b.state]

onFailure(b, t) ==
    LET f == b.failures + 1
    IN  [failures |-> f,
         lastFailTime |-> t,
         state |-> IF b.state # "OPEN" /\ f >= failureThreshold THEN "OPEN" ELSE b.state]

\* A catch block that rethrows whatever the state
failureOutcome_alwaysThrow(b) == "error"

\* execute, the catch block after onFailure: fallback returned, or the error rethrown
failureOutcome(b) ==
    IF b.state = "OPEN" \/ b.state = "HALF_OPEN" THEN "fallback" ELSE "error"

\* The breaker and its history after execute's guard ran at time t
EnterBreaker(e) ==
    /\ geminiBreaker' = e.breaker
    /\ hTrials' = IF e.breaker.state = "HALF_OPEN"
                  THEN (IF geminiBreaker.state = "HALF_OPEN" THEN hTrials ELSE 0)
                       + (IF e.invoke THEN 1 ELSE 0)
                  ELSE 0
    /\ UNCHANGED <<hConsec, hLastFail, hFailCaps>>

\* The breaker and its history after the fn of `service` settled
SettleBreaker(ok, service) ==
    /\ geminiBreaker' = IF ok THEN onSuccess(geminiBreaker) ELSE onFailure(geminiBreaker, now)
    /\ hConsec' = IF ok THEN 0 ELSE hConsec + 1
    /\ hLastFail' = IF ok THEN hLastFail ELSE now
    /\ hTrials' = IF geminiBreaker'.state = "HALF_OPEN" THEN hTrials ELSE 0
    /\ hFailCaps' = IF ok THEN {} ELSE hFailCaps \cup {service}

----------------------------------------------------------------------------
(* Breaker harness: callers that call geminiBreaker.execute directly *)

BcIdle == [pc |-> "idle", res |-> "none", cooling |-> FALSE]

\* execute(fn, fallback, service), lines 50-57 up to `await fn()`
ExecuteCall(c) ==
    /\ bc[c].pc = "idle"
    /\ bcCalls < MaxCalls
    /\ bcCalls' = bcCalls + 1
    /\ LET e == executeEntry(geminiBreaker, now)
           cool == hConsec >= failureThreshold /\ now - hLastFail <= timeout
       IN  /\ EnterBreaker(e)
           /\ bc' = [bc EXCEPT ![c] =
                        IF e.invoke
                        THEN [pc |-> "inflight", res |-> "none", cooling |-> cool]
                        ELSE [pc |-> "idle", res |-> "skipped", cooling |-> cool]]
    /\ UNCHANGED <<now, vi, rateVars, rcVars, cacheVars, rqVars>>

\* fn() settles: lines 57-62
ExecuteSettle(c) ==
    /\ bc[c].pc = "inflight"
    /\ \E ok \in BOOLEAN :
          /\ SettleBreaker(ok, Embedding)
          /\ bc' = [bc EXCEPT ![c] =
                       [pc |-> "idle",
                        res |-> IF ok THEN "result" ELSE failureOutcome(geminiBreaker'),
                        cooling |-> bc[c].cooling]]
    /\ UNCHANGED <<now, vi, bcCalls, rateVars, rcVars, cacheVars, rqVars>>

Tick ==
    /\ now < MaxTicks * TickMs
    /\ now' = now + TickMs
    /\ UNCHANGED <<vi, breakerVars, bcVars, rateVars, rcVars, cacheVars, rqVars>>

----------------------------------------------------------------------------
(* checkRateLimit *)

NoOp == [kind |-> "none", request_count |-> 0, window_start |-> 0]

\* checkRateLimit admitting one request more than the limit
checkRateLimit_offByOne(data, err, t) ==
    IF err THEN [allowed |-> TRUE, op |-> NoOp]
    ELSE IF data = <<>>
    THEN [allowed |-> TRUE,
          op |-> [kind |-> "insert", request_count |-> 1, window_start |-> 0]]
    ELSE IF t - data[1].window_start > RATE_LIMIT_WINDOW_MS
    THEN [allowed |-> TRUE,
          op |-> [kind |-> "reset", request_count |-> 1, window_start |-> t]]
    ELSE IF data[1].request_count > RATE_LIMIT_COUNT
    THEN [allowed |-> FALSE, op |-> NoOp]
    ELSE [allowed |-> TRUE,
          op |-> [kind |-> "count", request_count |-> data[1].request_count + 1,
                  window_start |-> 0]]

\* checkRateLimit testing the limit before the age of the window
checkRateLimit_limitFirst(data, err, t) ==
    IF err THEN [allowed |-> TRUE, op |-> NoOp]
    ELSE IF data = <<>>
    THEN [allowed |-> TRUE,
          op |-> [kind |-> "insert", request_count |-> 1, window_start |-> 0]]
    ELSE IF data[1].request_count >= RATE_LIMIT_COUNT
    THEN [allowed |-> FALSE, op |-> NoOp]
    ELSE IF t - data[1].window_start > RATE_LIMIT_WINDOW_MS
    THEN [allowed |-> TRUE,
          op |-> [kind |-> "reset", request_count |-> 1, window_start |-> t]]
    ELSE [allowed |-> TRUE,
          op |-> [kind |-> "count", request_count |-> data[1].request_count + 1,
                  window_start |-> 0]]

\* checkRateLimit counting the request it denies
checkRateLimit_countDenied(data, err, t) ==
    IF err THEN [allowed |-> TRUE, op |-> NoOp]
    ELSE IF data = <<>>
    THEN [allowed |-> TRUE,
          op |-> [kind |-> "insert", request_count |-> 1, window_start |-> 0]]
    ELSE IF t - data[1].window_start > RATE_LIMIT_WINDOW_MS
    THEN [allowed |-> TRUE,
          op |-> [kind |-> "reset", request_count |-> 1, window_start |-> t]]
    ELSE [allowed |-> data[1].request_count < RATE_LIMIT_COUNT,
          op |-> [kind |-> "count", request_count |-> data[1].request_count + 1,
                  window_start |-> 0]]

\* checkRateLimit denying the request when the select fails
checkRateLimit_failClosed(data, err, t) ==
    IF err THEN [allowed |-> FALSE, op |-> NoOp]
    ELSE IF data = <<>>
    THEN [allowed |-> TRUE,
          op |-> [kind |-> "insert", request_count |-> 1, window_start |-> 0]]
    ELSE IF t - data[1].window_start > RATE_LIMIT_WINDOW_MS
    THEN [allowed |-> TRUE,
          op |-> [kind |-> "reset", request_count |-> 1, window_start |-> t]]
    ELSE IF data[1].request_count >= RATE_LIMIT_COUNT
    THEN [allowed |-> FALSE, op |-> NoOp]
    ELSE [allowed |-> TRUE,
          op |-> [kind |-> "count", request_count |-> data[1].request_count + 1,
                  window_start |-> 0]]

\* checkRateLimit after the select settled (lines 173-191): the verdict and the
\* write it sends.  data is <<>> (no row) or <<row>>; err: the select failed;
\* t: Date.now() of line 174, which is also the new Date() of line 184.
checkRateLimit(data, err, t) ==
    IF err THEN [allowed |-> TRUE, op |-> NoOp]
    ELSE IF data = <<>>
    THEN [allowed |-> TRUE,
          op |-> [kind |-> "insert", request_count |-> 1, window_start |-> 0]]
    ELSE IF t - data[1].window_start > RATE_LIMIT_WINDOW_MS
    THEN [allowed |-> TRUE,
          op |-> [kind |-> "reset", request_count |-> 1, window_start |-> t]]
    ELSE IF data[1].request_count >= RATE_LIMIT_COUNT
    THEN [allowed |-> FALSE, op |-> NoOp]
    ELSE [allowed |-> TRUE,
          op |-> [kind |-> "count", request_count |-> data[1].request_count + 1,
                  window_start |-> 0]]

\* The select of lines 167-171 as the store answers it
SelectRow(tbl, u) == IF u \in DOMAIN tbl THEN <<tbl[u]>> ELSE <<>>

\* The row an insert without window_start creates: the column defaults to the
\* store's current time
InsertedRow(op, dbNow) == [request_count |-> op.request_count, window_start |-> dbNow]

\* The table after the store ran the write of lines 178, 184 or 191 for user u
ApplyWrite(tbl, u, op, dbNow) ==
    IF op.kind = "insert"
    THEN IF u \in DOMAIN tbl THEN tbl
         ELSE [v \in DOMAIN tbl \cup {u} |-> IF v = u THEN InsertedRow(op, dbNow) ELSE tbl[v]]
    ELSE IF u \notin DOMAIN tbl THEN tbl
    ELSE IF op.kind = "reset"
    THEN [tbl EXCEPT ![u] = [request_count |-> op.request_count,
                             window_start |-> op.window_start]]
    ELSE IF op.kind = "count"
    THEN [tbl EXCEPT ![u].request_count = op.request_count]
    ELSE tbl

\* Whether the store accepts the write (an insert of an existing key is rejected)
WriteAccepted(tbl, u, op) ==
    IF op.kind = "insert" THEN u \notin DOMAIN tbl ELSE u \in DOMAIN tbl

\* The table and its history after the write of user u settled (ok: the store ran it)
SettleWrite(u, op, ok) ==
    LET done == ok /\ WriteAccepted(user_rate_limits, u, op)
    IN  /\ user_rate_limits' = IF ok THEN ApplyWrite(user_rate_limits, u, op, now)
                               ELSE user_rate_limits
        /\ hIncr' = [hIncr EXCEPT ![u] =
                        IF ~done THEN @
                        ELSE IF op.kind = "count" THEN @ + 1 ELSE 0]

----------------------------------------------------------------------------
(* Rate-limiter harness: callers that call checkRateLimit directly *)

RcOff == [pc |-> "off", user |-> "u1", op |-> NoOp, res |-> FALSE, t |-> 0,
          arrExp |-> FALSE, readExp |-> FALSE, seen |-> 0, rok |-> TRUE, wok |-> TRUE]
RcIdle == [RcOff EXCEPT !.pc = "idle"]

\* The stored window of user u is older than the window length at time t
Expired(tbl, u, t) ==
    /\ u \in DOMAIN tbl
    /\ t - tbl[u].window_start > RATE_LIMIT_WINDOW_MS

\* checkRateLimit(secureClient, userId) is called: the select of lines 167-171 is sent
RateCall(c, u) ==
    /\ rc[c].pc = "idle"
    /\ rlBudget > 0
    /\ rlBudget' = rlBudget - 1
    /\ hReqs' = [hReqs EXCEPT ![u] = @ + 1]
    /\ hFirst' = [hFirst EXCEPT ![u] = IF @ = -1 THEN now ELSE @]
    /\ rc' = [rc EXCEPT ![c] =
                 [RcIdle EXCEPT !.pc = "select", !.user = u,
                                !.arrExp = Expired(user_rate_limits, u, now)]]
    /\ UNCHANGED <<now, vi, breakerVars, bcVars, rateVars, hHealthy, cacheVars, rqVars>>

\* The select settles; lines 173-191 run up to the awaited write or to a return
RateSelect(c) ==
    /\ rc[c].pc = "select"
    /\ \E err \in {~ok : ok \in Outcomes("store")} :
          LET u == rc[c].user
              data == SelectRow(user_rate_limits, u)
              d == checkRateLimit(data, err, now)
          IN  /\ rc' = [rc EXCEPT ![c] =
                        IF d.op.kind = "none"
                        THEN [RcIdle EXCEPT !.user = u, !.res = d.allowed, !.rok = ~err]
                        ELSE [@ EXCEPT !.pc = "write", !.op = d.op, !.t = now,
                                  !.seen = IF data = <<>> THEN 0 ELSE data[1].request_count,
                                  !.readExp = Expired(user_rate_limits, u, now)]]
              /\ hHealthy' = [hHealthy EXCEPT ![u] = @ /\ ~err]
    /\ UNCHANGED <<now, vi, breakerVars, bcVars, rateVars, rlBudget, hReqs, hFirst, cacheVars, rqVars>>

\* The awaited insert or update settles; checkRateLimit returns true
RateWrite(c) ==
    /\ rc[c].pc = "write"
    /\ \E ok \in Outcomes("store") :
          /\ SettleWrite(rc[c].user, rc[c].op, ok)
          /\ rc' = [rc EXCEPT ![c] =
                       [RcIdle EXCEPT !.user = rc[c].user, !.res = TRUE, !.wok = ok,
                                      !.op = [NoOp EXCEPT !.kind = rc[c].op.kind],
                                      !.seen = rc[c].seen]]
          /\ hHealthy' = [hHealthy EXCEPT ![rc[c].user] = @ /\ ok]
    /\ UNCHANGED <<now, vi, breakerVars, bcVars, rlBudget, hReqs, hFirst, cacheVars, rqVars>>

----------------------------------------------------------------------------
(* Texts are sequences of character codes *)

RECURSIVE SeqFilter(_, _)
\* s.replace(/[set]/g, ''): s without the characters of bad
SeqFilter(s, bad) ==
    IF s = <<>> THEN <<>>
    ELSE (IF Head(s) \in bad THEN <<>> ELSE <<Head(s)>>) \o SeqFilter(Tail(s), bad)

\* White space String.prototype.trim removes (the ASCII part)
WhiteSpace == {9, 10, 11, 12, 13, 32}

RECURSIVE TrimLeft(_)
TrimLeft(s) == IF s # <<>> /\ Head(s) \in WhiteSpace THEN TrimLeft(Tail(s)) ELSE s

RECURSIVE TrimRight(_)
TrimRight(s) ==
    IF s # <<>> /\ s[Len(s)] \in WhiteSpace THEN TrimRight(SubSeq(s, 1, Len(s) - 1)) ELSE s

trim(s) == TrimRight(TrimLeft(s))

toLowerCase(s) == [i \in 1 .. Len(s) |-> IF s[i] \in 65 .. 90 THEN s[i] + 32 ELSE s[i]]

----------------------------------------------------------------------------
(* validateInput *)

\* /[\x00-\x1F\x7F]/
ControlChars == (0 .. 31) \cup {127}

\* validateInput measuring the message before it is trimmed
validateInput_untrimmed(message) ==
    LET trimmedMessage == trim(message)
    IN  IF Len(message) < MIN_INPUT_LENGTH
        THEN [ok |-> FALSE, text |-> <<>>, error |-> "Validation Error: Message too short."]
        ELSE IF Len(message) > MAX_INPUT_LENGTH
        THEN [ok |-> FALSE, text |-> <<>>,
              error |-> "Validation Error: Message exceeds 2000 characters."]
        ELSE [ok |-> TRUE, text |-> SeqFilter(trimmedMessage, ControlChars), error |-> ""]

\* validateInput(message), lines 315-321: the sanitized text, or the error thrown
validateInput(message) ==
    LET trimmedMessage == trim(message)
    IN  IF Len(trimmedMessage) < MIN_INPUT_LENGTH
        THEN [ok |-> FALSE, text |-> <<>>, error |-> "Validation Error: Message too short."]
        ELSE IF Len(trimmedMessage) > MAX_INPUT_LENGTH
        THEN [ok |-> FALSE, text |-> <<>>,
              error |-> "Validation Error: Message exceeds 2000 characters."]
        ELSE [ok |-> TRUE, text |-> SeqFilter(trimmedMessage, ControlChars), error |-> ""]

\* No call of validateInput is modelled
ViOff == [pc |-> "off", message |-> <<>>, text |-> <<>>, error |-> ""]

\* validateInput(vi.message) runs: it returns the sanitized text or throws
Validate ==
    /\ vi.pc = "call"
    /\ LET v == validateInput(vi.message)
       IN  vi' = [vi EXCEPT !.pc = IF v.ok THEN "returned" ELSE "threw",
                            !.text = v.text, !.error = v.error]
    /\ UNCHANGED <<now, breakerVars, bcVars, rateVars, rcVars, cacheVars, rqVars>>

\* The characters of the two messages validateInput throws
MessageText(error) ==
    IF error = "Validation Error: Message too short."
    THEN <<86, 97, 108, 105, 100, 97, 116, 105, 111, 110, 32, 69, 114, 114, 111, 114, 58, 32, 77, 101, 115, 115, 97, 103, 101, 32, 116, 111, 111, 32, 115, 104, 111, 114, 116, 46>>
    ELSE IF error = "Validation Error: Message exceeds 2000 characters."
    THEN <<86, 97, 108, 105, 100, 97, 116, 105, 111, 110, 32, 69, 114, 114, 111, 114, 58, 32, 77, 101, 115, 115, 97, 103, 101, 32, 101, 120, 99, 101, 101, 100, 115, 32, 50, 48, 48, 48, 32, 99, 104, 97, 114, 97, 99, 116, 101, 114, 115, 46>>
    ELSE <<>>

\* String.prototype.includes
includes(s, searchString) ==
    \E i \in 0 .. Len(s) - Len(searchString) :
        SubSeq(s, i + 1, i + Len(searchString)) = searchString

\* e.message.includes('too long'), line 365
IncludesTooLong(error) == includes(MessageText(error), <<116, 111, 111, 32, 108, 111, 110, 103>>)

\* createMD5Hash(text), lines 88-93: the digest of the lower-cased, trimmed text.
\* The digest is taken to be injective, so the normalised text stands for it.
createMD5Hash(text) == trim(toLowerCase(text))

\* The message bodies the requests of the model carry
Messages ==
    <<<<32, 104, 111, 108, 97, 32>>,
      <<32, 72, 111, 108, 97, 115, 32>>,
      [i \in 1 .. MAX_INPUT_LENGTH + 1 |-> 97]>>

----------------------------------------------------------------------------
(* classifyLegalSpecialty: the normalisation of the model's answer *)

Labels == {"Derecho Penal", "Derecho Civil", "Derecho Laboral", "Sin Clasificar"}

\* specialtyMap, line 260: normalised answer -> label
specialtyMap ==
    {<<<<100, 101, 114, 101, 99, 104, 111, 32, 112, 101, 110, 97, 108>>, "Derecho Penal">>,
     <<<<100, 101, 114, 101, 99, 104, 111, 32, 99, 105, 118, 105, 108>>, "Derecho Civil">>,
     <<<<100, 101, 114, 101, 99, 104, 111, 32, 108, 97, 98, 111, 114, 97, 108>>, "Derecho Laboral">>,
     <<<<115, 105, 110, 32, 99, 108, 97, 115, 105, 102, 105, 99, 97, 114>>, "Sin Clasificar">>}

\* lines 261-263: response.text.trim().toLowerCase().replace(/[.,]/g, ''), looked up
\* in specialtyMap, 'Sin Clasificar' when absent
specialtyOf(responseText) ==
    LET normalized == SeqFilter(toLowerCase(trim(responseText)), {46, 44})
        hits == {e \in specialtyMap : e[1] = normalized}
    IN  IF hits = {} THEN "Sin Clasificar" ELSE (CHOOSE e \in hits : TRUE)[2]

\* Answers of the classification model the requests of the model receive
ModelAnswers ==
    {<<32, 68, 101, 114, 101, 99, 104, 111, 32, 67, 105, 118, 105, 108, 46, 10>>,
     <<78, 111, 32, 108, 111, 32, 115, 101>>}

FALLBACK_CLASSIFICATION == [specialty |-> "Sin Clasificar", usage |-> 0]

----------------------------------------------------------------------------
(* Texts sent to the user and stored in the audit record are sequences of pieces *)

FALLBACK_AUGMENTATION_TEXT == <<"FALLBACK_AUGMENTATION_TEXT">>
FALLBACK_AUGMENTATION == [responseText |-> FALLBACK_AUGMENTATION_TEXT, usage |-> 0]
THROTTLE_NOTICE == <<"rate limit notice">>
TOO_LONG_NOTICE == <<"too long notice">>
TOO_SHORT_NOTICE == <<"too short notice">>
\* line 401: the notice names the determined specialty
HandoffNotice(specialty) == <<"handoff notice", specialty>>

\* String length of one piece: the fallback text, or a 100-character chunk text
PieceLen(p) == IF <<p>> = FALLBACK_AUGMENTATION_TEXT THEN FALLBACK_TEXT_LENGTH ELSE 100

RECURSIVE TextLen(_)
TextLen(t) == IF t = <<>> THEN 0 ELSE PieceLen(Head(t)) + TextLen(Tail(t))

\* chunk.text || '' of the chunks a generation stream yields
StreamChunks == {<<>>, <<"chunk text">>, FALLBACK_AUGMENTATION_TEXT}

\* stream.usageMetadata?.totalTokens || 0
GenerationUsage == {0, 5}

\* What the classification call yields when it succeeds
ClassifyOutcomes ==
    {[text |-> a, usage |-> IF specialtyOf(a) = "Sin Clasificar" THEN 0 ELSE 3] :
        a \in ModelAnswers}

----------------------------------------------------------------------------
(* Embeddings: a vector is its length and the number of its non-zero entries *)

FALLBACK_EMBEDDING == [length |-> EMBEDDING_DIM, nonzero |-> 0]

\* A test that takes no vector for the fallback
isFallback_never(v) == FALSE

\* lines 220 and 239: same length and every entry equal to 0
isFallback(v) == v.length = FALLBACK_EMBEDDING.length /\ v.nonzero = 0

\* What embedContent yields when it succeeds
EmbedOutputs == {[length |-> EMBEDDING_DIM, nonzero |-> EMBEDDING_DIM],
                 [length |-> EMBEDDING_DIM, nonzero |-> 0]}

\* What match_legal_documents returns: at most p_match_count = 3 fragment ids
RpcResults == {<<>>, <<"f2", "f1">>}

----------------------------------------------------------------------------
(* runAgentRouter *)

RqOff == [pc |-> "off", user |-> NoUser, msg |-> 1, op |-> NoOp, specialty |-> "",
          tokens |-> 0, frags |-> <<>>, buf |-> <<>>, full |-> <<>>, chunks |-> 0,
          gusage |-> 0, text |-> <<>>, passed |-> FALSE, out |-> "none", err |-> "none",
          sent |-> <<>>, sendFail |-> FALSE, audits |-> <<>>, invoked |-> {},
          skips |-> {}, ckpts |-> 0, hooks |-> 0,
          stages |-> <<>>, effects |-> <<>>, qemb |-> [length |-> 0, nonzero |-> 0],
          denied |-> FALSE, cacheHit |-> FALSE,
          ctokens |-> 0, gtokens |-> 0, gfallback |-> FALSE, auditFail |-> FALSE]
RqIdle == [RqOff EXCEPT !.pc = "idle"]

\* The stages of runAgentRouter the request began and finished, in order
Logs(q, events) == [q EXCEPT !.stages = @ \o events]

\* sanitized_message of the request
Sanitized(q) == validateInput(Messages[q.msg]).text

\* runAgentRouter rejects with an error that came from `origin`
Throw(q, origin) ==
    [q EXCEPT !.pc = "done", !.out = "threw", !.err = origin, !.text = <<>>, !.gusage = 0]
\* runAgentRouter resolves
Return(q) == [q EXCEPT !.pc = "done", !.out = "returned"]

RouterStage(specialty) ==
    CASE specialty = "Derecho Penal" -> "Router:Derecho Penal"
      [] specialty = "Derecho Civil" -> "Router:Derecho Civil"
      [] specialty = "Derecho Laboral" -> "Router:Derecho Laboral"
      [] OTHER -> "Router:Sin Clasificar"

\* The ai_interactions insert with an empty fragment id list
IssueAudit_noFragments(q, aiResponseText, executeHandoffFlag) ==
    [Logs(q, <<"audit">>) EXCEPT
        !.pc = "audit",
        !.audits = Append(@,
            [response_text |-> aiResponseText,
             llm_model_used |-> IF Len(q.frags) > 0 THEN "Gemini (Streamed)"
                                ELSE "Handoff Triggered",
             cost_in_tokens |-> q.tokens,
             path_langgraph_recorrido |->
                 IF executeHandoffFlag
                 THEN <<RouterStage(q.specialty), "Handoff_Initiated">>
                 ELSE <<RouterStage(q.specialty), "RAG_Executed", "Augmentation">>,
             rag_fragments_ids |-> <<>>])]

\* lines 408-420: the ai_interactions insert is sent
IssueAudit(q, aiResponseText, executeHandoffFlag) ==
    [Logs(q, <<"audit">>) EXCEPT
        !.pc = "audit",
        !.audits = Append(@,
            [response_text |-> aiResponseText,
             llm_model_used |-> IF Len(q.frags) > 0 THEN "Gemini (Streamed)"
                                ELSE "Handoff Triggered",
             cost_in_tokens |-> q.tokens,
             path_langgraph_recorrido |->
                 IF executeHandoffFlag
                 THEN <<RouterStage(q.specialty), "Handoff_Initiated">>
                 ELSE <<RouterStage(q.specialty), "RAG_Executed", "Augmentation">>,
             rag_fragments_ids |-> q.frags])]

\* generateAugmentedResponse returned and the audit insert is sent twice
AfterGeneration_auditTwice(q, responseText, usage) ==
    IssueAudit(
        IssueAudit(Logs([q EXCEPT !.tokens = @ + usage, !.gtokens = usage, !.buf = <<>>, !.full = <<>>,
                                  !.chunks = 0, !.gusage = 0, !.text = <<>>],
                        <<"augmentation.end">>),
                   responseText, responseText = FALLBACK_AUGMENTATION_TEXT),
        responseText, responseText = FALLBACK_AUGMENTATION_TEXT)

\* generateAugmentedResponse returned and the fallback text also fires the hook
AfterGeneration_hookOnFallback(q, responseText, usage) ==
    IssueAudit(Logs([q EXCEPT !.tokens = @ + usage, !.gtokens = usage, !.buf = <<>>, !.full = <<>>,
                              !.chunks = 0, !.gusage = 0, !.text = <<>>,
                              !.hooks = IF responseText = FALLBACK_AUGMENTATION_TEXT
                                        THEN @ + 1 ELSE @],
                    <<"augmentation.end">>),
               responseText, responseText = FALLBACK_AUGMENTATION_TEXT)

\* generateAugmentedResponse returned and its usage is not added to the total
AfterGeneration_dropUsage(q, responseText, usage) ==
    IssueAudit(Logs([q EXCEPT !.gtokens = usage, !.buf = <<>>, !.full = <<>>,
                              !.chunks = 0, !.gusage = 0, !.text = <<>>],
                    <<"augmentation.end">>),
               responseText, responseText = FALLBACK_AUGMENTATION_TEXT)

\* lines 392-396 and 408: generateAugmentedResponse returned {responseText, usage}
AfterGeneration(q, responseText, usage) ==
    IssueAudit(Logs([q EXCEPT !.tokens = @ + usage, !.gtokens = usage, !.buf = <<>>, !.full = <<>>,
                              !.chunks = 0, !.gusage = 0, !.text = <<>>],
                    <<"augmentation.end">>),
               responseText, responseText = FALLBACK_AUGMENTATION_TEXT)

\* lines 398-403: no fragment; the notice is composed and saveCheckpoint is awaited
StartHandoff(q) ==
    [Logs(q, <<"handoff">>) EXCEPT
        !.pc = "checkpoint", !.frags = <<>>, !.text = HandoffNotice(q.specialty),
        !.ckpts = @ + 1,
        !.effects = Append(@, [kind |-> "checkpoint", text |-> Sanitized(q),
                               specialty |-> "", flag |-> TRUE])]

\* The match_legal_documents call of lines 246-248 is sent
SendRpc(q, queryEmbedding) ==
    [q EXCEPT !.pc = "rpc", !.qemb = queryEmbedding,
              !.effects = Append(@, [kind |-> "rpc", text |-> <<>>,
                                     specialty |-> q.specialty, flag |-> FALSE])]

\* retrieveRAGContext that searches with whatever vector it has
AfterEmbedding_alwaysSearch(q, queryEmbedding) == SendRpc(q, queryEmbedding)

\* retrieveRAGContext with the query embedding in hand, lines 233-248; on the
\* fallback vector it returns [] and runAgentRouter goes on at line 398
AfterEmbedding(q, queryEmbedding) ==
    IF isFallback(queryEmbedding)
    THEN StartHandoff(Logs([q EXCEPT !.qemb = queryEmbedding], <<"retrieval.end">>))
    ELSE SendRpc(q, queryEmbedding)

\* A cache hit that returns another vector than the one stored
OnCacheHit_otherVector(q, cached) ==
    AfterEmbedding([q EXCEPT !.cacheHit = TRUE], [length |-> EMBEDDING_DIM, nonzero |-> 1])

\* generateQueryEmbedding on a cache hit, lines 207-211: cached.embedding is returned
OnCacheHit(q, cached) == AfterEmbedding([q EXCEPT !.cacheHit = TRUE], cached.embedding)

\* The history of embedContent after a call for hash h returned the vector v.
\* The count stops at MaxEmbedCount.
Embedded(h, v) ==
    [k \in DOMAIN hEmbed \cup {h} |->
        LET old == IF k \in DOMAIN hEmbed THEN hEmbed[k] ELSE [calls |-> 0, vectors |-> {}]
        IN  IF k = h THEN [calls |-> IF old.calls < MaxEmbedCount THEN old.calls + 1
                                          ELSE old.calls,
                           vectors |-> old.vectors \cup {v}]
            ELSE old]

\* geminiBreaker.execute is entered for `service`: fn is invoked (the request then
\* waits at onInvoke) or the fallback is returned at once (the request goes on as onSkip)
EnterService(r, service, onInvoke, onSkip) ==
    LET e == executeEntry(geminiBreaker, now)
    IN  /\ EnterBreaker(e)
        /\ rq' = [rq EXCEPT ![r] =
                     IF e.invoke
                     THEN [onInvoke EXCEPT !.invoked = @ \cup {service}]
                     ELSE [onSkip EXCEPT !.skips =
                                @ \cup {[service |-> service, blame |-> hFailCaps]}]]

\* The request is allowed: validateInput, then classifyLegalSpecialty (lines 361-376)
AfterAllowed(r, q) ==
    LET v == validateInput(Messages[q.msg])
        q1 == Logs(q, <<"rate_limit.end", "validation", "validation.end">>)
    IN  IF ~v.ok
        THEN /\ rq' = [rq EXCEPT ![r] =
                          [q1 EXCEPT !.pc = "send_invalid",
                                     !.text = IF IncludesTooLong(v.error)
                                              THEN TOO_LONG_NOTICE ELSE TOO_SHORT_NOTICE]]
             /\ UNCHANGED breakerVars
        ELSE EnterService(r, Classification,
                 [Logs(q1, <<"classification">>) EXCEPT !.pc = "classify", !.passed = TRUE],
                 [Logs(q1, <<"classification", "classification.end", "retrieval">>) EXCEPT
                     !.pc = "cache_select", !.passed = TRUE,
                     !.specialty = FALLBACK_CLASSIFICATION.specialty,
                     !.ctokens = FALLBACK_CLASSIFICATION.usage,
                     !.tokens = @ + FALLBACK_CLASSIFICATION.usage])

\* runAgentRouter(secureClient, message_text, whatsapp_id) is called
StartRequest(r, u, m) ==
    /\ rq[r].pc \in {"idle", "done"}
    /\ runsLeft > 0
    /\ runsLeft' = runsLeft - 1
    /\ rq' = [rq EXCEPT ![r] = [RqIdle EXCEPT !.pc = "getUser", !.user = u, !.msg = m]]
    /\ UNCHANGED <<now, vi, breakerVars, bcVars, rateVars, rcVars, cacheVars, env>>

\* auth.getUser() settles, lines 349-354
GetUser(r) ==
    /\ rq[r].pc = "getUser"
    /\ rq' = [rq EXCEPT ![r] = IF rq[r].user = NoUser THEN Return(rq[r])
                               ELSE [Logs(rq[r], <<"rate_limit">>) EXCEPT
                                        !.pc = "rl_select"]]
    /\ UNCHANGED <<now, vi, breakerVars, bcVars, rateVars, rcVars, cacheVars, runsLeft, env>>

\* The select of checkRateLimit settles, lines 173-191 and 355-357
RlSelect(r) ==
    /\ rq[r].pc = "rl_select"
    /\ \E ok \in Outcomes("store") :
          LET d == checkRateLimit(SelectRow(user_rate_limits, rq[r].user), ~ok, now)
          IN  IF d.op.kind # "none"
              THEN /\ rq' = [rq EXCEPT ![r] = [@ EXCEPT !.pc = "rl_write", !.op = d.op]]
                   /\ UNCHANGED breakerVars
              ELSE IF d.allowed
              THEN AfterAllowed(r, rq[r])
              ELSE /\ rq' = [rq EXCEPT ![r] =
                                [Logs(@, <<"rate_limit.end">>) EXCEPT
                                    !.pc = "send_throttle", !.text = THROTTLE_NOTICE,
                                    !.denied = ~d.allowed]]
                   /\ UNCHANGED breakerVars
    /\ UNCHANGED <<now, vi, bcVars, rateVars, rcVars, cacheVars, runsLeft, env>>

\* The insert or update of checkRateLimit settles; it returns true
RlWrite(r) ==
    /\ rq[r].pc = "rl_write"
    /\ \E ok \in Outcomes("store") : SettleWrite(rq[r].user, rq[r].op, ok)
    /\ AfterAllowed(r, [rq[r] EXCEPT !.op = NoOp])
    /\ UNCHANGED <<now, vi, bcVars, rcVars, cacheVars, runsLeft, env>>

\* The throttling notice sent twice
SendThrottle_twice(r) ==
    /\ rq[r].pc = "send_throttle"
    /\ \E ok \in Outcomes("delivery") :
          rq' = [rq EXCEPT ![r] =
                    IF ok THEN Return([@ EXCEPT !.sent = @ \o <<rq[r].text, rq[r].text>>,
                                                !.text = <<>>])
                    ELSE Throw([@ EXCEPT !.sendFail = TRUE, !.text = <<>>], "delivery")]
    /\ UNCHANGED <<now, vi, breakerVars, bcVars, rateVars, rcVars, cacheVars, runsLeft, env>>

\* sendWhatsappMessage of line 356 settles
SendThrottle(r) ==
    /\ rq[r].pc = "send_throttle"
    /\ \E ok \in Outcomes("delivery") :
          rq' = [rq EXCEPT ![r] =
                    IF ok THEN Return([@ EXCEPT !.sent = Append(@, rq[r].text), !.text = <<>>])
                    ELSE Throw([@ EXCEPT !.sendFail = TRUE, !.text = <<>>], "delivery")]
    /\ UNCHANGED <<now, vi, breakerVars, bcVars, rateVars, rcVars, cacheVars, runsLeft, env>>

\* sendWhatsappMessage(...).catch(console.error) of line 369 settles
SendInvalid(r) ==
    /\ rq[r].pc = "send_invalid"
    /\ \E ok \in Outcomes("delivery") :
          rq' = [rq EXCEPT ![r] =
                    IF ok THEN Return([@ EXCEPT !.sent = Append(@, rq[r].text), !.text = <<>>])
                    ELSE Return([@ EXCEPT !.sendFail = TRUE, !.text = <<>>])]
    /\ UNCHANGED <<now, vi, breakerVars, bcVars, rateVars, rcVars, cacheVars, runsLeft, env>>

\* generateContent of classifyLegalSpecialty settles, lines 258-266 and 376-382
Classify(r) ==
    /\ rq[r].pc = "classify"
    /\ \/ /\ FALSE \in Outcomes("gemini")
          /\ SettleBreaker(FALSE, Classification)
          /\ rq' = [rq EXCEPT ![r] =
                       IF failureOutcome(geminiBreaker') = "fallback"
                       THEN [Logs(@, <<"classification.end", "retrieval">>) EXCEPT
                                !.pc = "cache_select",
                                !.specialty = FALLBACK_CLASSIFICATION.specialty,
                                !.ctokens = FALLBACK_CLASSIFICATION.usage,
                                !.tokens = @ + FALLBACK_CLASSIFICATION.usage]
                       ELSE Throw(@, Classification)]
       \/ /\ SettleBreaker(TRUE, Classification)
          /\ \E o \in ClassifyOutcomes :
                rq' = [rq EXCEPT ![r] =
                          [Logs(@, <<"classification.end", "retrieval">>) EXCEPT
                              !.pc = "cache_select",
                              !.specialty = specialtyOf(o.text),
                              !.ctokens = o.usage,
                              !.tokens = @ + o.usage]]
    /\ UNCHANGED <<now, vi, bcVars, rateVars, rcVars, cacheVars, runsLeft, env>>

\* The digest and the embedding_cache select settle, lines 204-216
CacheSelect(r) ==
    /\ rq[r].pc = "cache_select"
    /\ LET queryHash == createMD5Hash(Sanitized(rq[r]))
       IN  \E ok \in Outcomes("store") :
              IF ok /\ queryHash \in DOMAIN embedding_cache
              THEN /\ detached' = detached \cup
                         {[kind |-> "hit", query_hash |-> queryHash,
                           embedding |-> FALLBACK_EMBEDDING, hit_count |-> 0 + 1]}
                   /\ rq' = [rq EXCEPT ![r] = OnCacheHit(@, embedding_cache[queryHash])]
                   /\ UNCHANGED breakerVars
              ELSE /\ EnterService(r, Embedding,
                          [rq[r] EXCEPT !.pc = "embed"],
                          AfterEmbedding(rq[r], FALLBACK_EMBEDDING))
                   /\ UNCHANGED detached
    /\ UNCHANGED <<now, vi, bcVars, rateVars, rcVars, embedding_cache, hEmbed, runsLeft, env>>

\* embedContent settles, lines 214-225, then retrieveRAGContext lines 233-248
Embed(r) ==
    /\ rq[r].pc = "embed"
    /\ \/ /\ FALSE \in Outcomes("gemini")
          /\ SettleBreaker(FALSE, Embedding)
          /\ rq' = [rq EXCEPT ![r] =
                       IF failureOutcome(geminiBreaker') = "fallback"
                       THEN AfterEmbedding(@, FALLBACK_EMBEDDING)
                       ELSE Throw(@, Embedding)]
          /\ UNCHANGED <<detached, hEmbed>>
       \/ /\ SettleBreaker(TRUE, Embedding)
          /\ \E embedding \in EmbedOutputs :
                /\ rq' = [rq EXCEPT ![r] = AfterEmbedding(@, embedding)]
                /\ hEmbed' = Embedded(createMD5Hash(Sanitized(rq[r])), embedding)
                /\ detached' = IF isFallback(embedding) THEN detached
                               ELSE detached \cup
                                    {[kind |-> "insert",
                                      query_hash |-> createMD5Hash(Sanitized(rq[r])),
                                      embedding |-> embedding, hit_count |-> 0]}
    /\ UNCHANGED <<now, vi, bcVars, rateVars, rcVars, embedding_cache, runsLeft, env>>

\* match_legal_documents settles, lines 250-251, then lines 385-403
Rpc(r) ==
    /\ rq[r].pc = "rpc"
    /\ \E data \in RpcResults, ok \in Outcomes("store") :
          LET ragResults == IF ok THEN data ELSE <<>>
              q == Logs([rq[r] EXCEPT !.frags = ragResults], <<"retrieval.end">>)
          IN  IF Len(ragResults) > 0
              THEN EnterService(r, Augmentation,
                       [Logs(q, <<"augmentation">>) EXCEPT !.pc = "gen_open"],
                       [Logs(q, <<"augmentation">>) EXCEPT
                           !.pc = "send_fallback",
                           !.text = FALLBACK_AUGMENTATION.responseText,
                           !.gusage = FALLBACK_AUGMENTATION.usage,
                           !.gfallback = TRUE])
              ELSE /\ rq' = [rq EXCEPT ![r] = StartHandoff(q)]
                   /\ UNCHANGED breakerVars
    /\ UNCHANGED <<now, vi, bcVars, rateVars, rcVars, cacheVars, runsLeft, env>>

\* fn of generateAugmentedResponse threw: lines 58-61, then 294 or 299-302
GenerationFailed(r, q) ==
    /\ SettleBreaker(FALSE, Augmentation)
    /\ rq' = [rq EXCEPT ![r] =
                 IF failureOutcome(geminiBreaker') = "fallback"
                 THEN [q EXCEPT !.pc = "send_fallback",
                                !.text = FALLBACK_AUGMENTATION.responseText,
                                !.gusage = FALLBACK_AUGMENTATION.usage,
                                !.gfallback = TRUE,
                                !.buf = <<>>, !.full = <<>>, !.chunks = 0]
                 ELSE [q EXCEPT !.pc = "send_fallback_catch",
                                !.text = FALLBACK_AUGMENTATION_TEXT,
                                !.gfallback = TRUE,
                                !.buf = <<>>, !.full = <<>>, !.chunks = 0]]

\* fn of generateAugmentedResponse returned: lines 57, 286-287, 294
GenerationSucceeded(r, q, usage) ==
    /\ SettleBreaker(TRUE, Augmentation)
    /\ rq' = [rq EXCEPT ![r] =
                 IF q.full = FALLBACK_AUGMENTATION_TEXT
                 THEN [q EXCEPT !.pc = "send_fallback", !.text = q.full, !.gusage = usage,
                                !.buf = <<>>, !.full = <<>>, !.chunks = 0]
                 ELSE AfterGeneration(q, q.full, usage)]

\* generateContentStream settles, line 277
GenOpen(r) ==
    /\ rq[r].pc = "gen_open"
    /\ \/ /\ rq' = [rq EXCEPT ![r] = [@ EXCEPT !.pc = "gen_chunk"]]
          /\ UNCHANGED breakerVars
       \/ /\ FALSE \in Outcomes("gemini")
          /\ GenerationFailed(r, rq[r])
    /\ UNCHANGED <<now, vi, bcVars, rateVars, rcVars, cacheVars, runsLeft, env>>

\* The stream yields a chunk, ends or fails: lines 280-287
GenChunk(r) ==
    /\ rq[r].pc = "gen_chunk"
    /\ \/ /\ rq[r].chunks < MaxChunks
          /\ \E text \in StreamChunks :
                LET buffer == rq[r].buf \o text
                IN  rq' = [rq EXCEPT ![r] =
                              [@ EXCEPT !.buf = buffer, !.full = @ \o text,
                                        !.chunks = @ + 1,
                                        !.pc = IF TextLen(buffer) >= CHUNK_SIZE
                                               THEN "gen_send" ELSE "gen_chunk"]]
          /\ UNCHANGED breakerVars
       \/ /\ TextLen(rq[r].buf) > 0
          /\ rq' = [rq EXCEPT ![r] = [@ EXCEPT !.pc = "gen_flush"]]
          /\ UNCHANGED breakerVars
       \/ /\ TextLen(rq[r].buf) = 0
          /\ \E usage \in GenerationUsage : GenerationSucceeded(r, rq[r], usage)
       \/ /\ FALSE \in Outcomes("gemini")
          /\ GenerationFailed(r, rq[r])
    /\ UNCHANGED <<now, vi, bcVars, rateVars, rcVars, cacheVars, runsLeft, env>>

\* The chunk send of line 282 settling without buffer = ''
GenSend_keepBuffer(r) ==
    /\ rq[r].pc = "gen_send"
    /\ \/ /\ rq' = [rq EXCEPT ![r] =
                       [@ EXCEPT !.pc = "gen_chunk", !.sent = Append(@, rq[r].buf)]]
          /\ UNCHANGED breakerVars
       \/ /\ FALSE \in Outcomes("delivery")
          /\ GenerationFailed(r, [rq[r] EXCEPT !.sendFail = TRUE])
    /\ UNCHANGED <<now, vi, bcVars, rateVars, rcVars, cacheVars, runsLeft, env>>

\* sendWhatsappMessage of line 282 settles
GenSend(r) ==
    /\ rq[r].pc = "gen_send"
    /\ \/ /\ rq' = [rq EXCEPT ![r] =
                       [@ EXCEPT !.pc = "gen_chunk", !.sent = Append(@, rq[r].buf),
                                 !.buf = <<>>]]
          /\ UNCHANGED breakerVars
       \/ /\ FALSE \in Outcomes("delivery")
          /\ GenerationFailed(r, [rq[r] EXCEPT !.sendFail = TRUE])
    /\ UNCHANGED <<now, vi, bcVars, rateVars, rcVars, cacheVars, runsLeft, env>>

\* sendWhatsappMessage of line 284 settles
GenFlush(r) ==
    /\ rq[r].pc = "gen_flush"
    /\ \/ \E usage \in GenerationUsage :
             GenerationSucceeded(r, [rq[r] EXCEPT !.sent = Append(@, rq[r].buf)], usage)
       \/ /\ FALSE \in Outcomes("delivery")
          /\ GenerationFailed(r, [rq[r] EXCEPT !.sendFail = TRUE])
    /\ UNCHANGED <<now, vi, bcVars, rateVars, rcVars, cacheVars, runsLeft, env>>

\* sendWhatsappMessage of line 295 settles
SendFallback(r) ==
    /\ rq[r].pc = "send_fallback"
    /\ \E ok \in Outcomes("delivery") :
          rq' = [rq EXCEPT ![r] =
                    IF ok
                    THEN AfterGeneration([@ EXCEPT !.sent = Append(@, rq[r].text)],
                                         rq[r].text, rq[r].gusage)
                    ELSE [@ EXCEPT !.pc = "send_fallback_catch", !.sendFail = TRUE,
                                   !.text = FALLBACK_AUGMENTATION_TEXT, !.gusage = 0,
                                   !.gfallback = TRUE]]
    /\ UNCHANGED <<now, vi, breakerVars, bcVars, rateVars, rcVars, cacheVars, runsLeft, env>>

\* sendWhatsappMessage of line 302 settles
SendFallbackCatch(r) ==
    /\ rq[r].pc = "send_fallback_catch"
    /\ \E ok \in Outcomes("delivery") :
          rq' = [rq EXCEPT ![r] =
                    IF ok
                    THEN AfterGeneration([@ EXCEPT !.sent = Append(@, rq[r].text)],
                                         FALLBACK_AUGMENTATION.responseText,
                                         FALLBACK_AUGMENTATION.usage)
                    ELSE Throw([@ EXCEPT !.sendFail = TRUE], "delivery")]
    /\ UNCHANGED <<now, vi, breakerVars, bcVars, rateVars, rcVars, cacheVars, runsLeft, env>>

\* executeHandoff, lines 330-336, with N8N_HANDOFF_WEBHOOK_URL configured: the
\* hook request is sent and not awaited
executeHandoff(q) ==
    [q EXCEPT !.hooks = @ + 1,
              !.effects = Append(@, [kind |-> "hook", text |-> Sanitized(q),
                                     specialty |-> q.specialty, flag |-> FALSE])]

\* The fetch of line 335, sent and not awaited
HookCall == [kind |-> "hook", query_hash |-> <<>>, embedding |-> FALLBACK_EMBEDDING,
             hit_count |-> 0]

\* The calls pending after executeHandoff sent the hook request. Its settling
\* changes nothing (the rejection is logged), so the pending request is kept only
\* in the runs that follow it, those whose env names the hook.
WithHookCall(pending) == IF "hook" \in env THEN pending \cup {HookCall} ELSE pending

\* The handoff branch calling executeHandoff twice
Checkpoint_twoHooks(r) ==
    /\ rq[r].pc = "checkpoint"
    /\ \E ok \in Outcomes("store") :
          rq' = [rq EXCEPT ![r] =
                    IssueAudit(Logs([executeHandoff(executeHandoff(@)) EXCEPT !.text = <<>>],
                                    <<"handoff.end">>),
                               rq[r].text, TRUE)]
    /\ detached' = WithHookCall(detached)
    /\ UNCHANGED <<now, vi, breakerVars, bcVars, rateVars, rcVars, embedding_cache, hEmbed,
                   runsLeft, env>>

\* The chat_history insert of saveCheckpoint settles; executeHandoff sends the
\* hook request without awaiting it; lines 325-326, 404, 408-420
Checkpoint(r) ==
    /\ rq[r].pc = "checkpoint"
    /\ \E ok \in Outcomes("store") :
          rq' = [rq EXCEPT ![r] =
                    IssueAudit(Logs([executeHandoff(@) EXCEPT !.text = <<>>],
                                    <<"handoff.end">>),
                               rq[r].text, TRUE)]
    /\ detached' = WithHookCall(detached)
    /\ UNCHANGED <<now, vi, breakerVars, bcVars, rateVars, rcVars, embedding_cache, hEmbed,
                   runsLeft, env>>

\* The ai_interactions insert sent only when the calls sent without await settled
Audit_awaitsDetached(r) ==
    /\ rq[r].pc = "audit"
    /\ detached = {}
    /\ \E ok \in Outcomes("store") :
          rq' = [rq EXCEPT ![r] =
                    Return([Logs(@, <<"audit.end">>) EXCEPT !.auditFail = ~ok])]
    /\ UNCHANGED <<now, vi, breakerVars, bcVars, rateVars, rcVars, cacheVars, runsLeft, env>>

\* The ai_interactions insert settling with its error thrown
Audit_throwsLogError(r) ==
    /\ rq[r].pc = "audit"
    /\ \E ok \in Outcomes("store") :
          rq' = [rq EXCEPT ![r] =
                    IF ok THEN Return(Logs(@, <<"audit.end">>))
                    ELSE Throw([Logs(@, <<"audit.end">>) EXCEPT !.auditFail = TRUE],
                               "store")]
    /\ UNCHANGED <<now, vi, breakerVars, bcVars, rateVars, rcVars, cacheVars, runsLeft, env>>

\* The ai_interactions insert settles, line 422: logError is logged
Audit(r) ==
    /\ rq[r].pc = "audit"
    /\ \E ok \in Outcomes("store") :
          rq' = [rq EXCEPT ![r] =
                    Return([Logs(@, <<"audit.end">>) EXCEPT !.auditFail = ~ok])]
    /\ UNCHANGED <<now, vi, breakerVars, bcVars, rateVars, rcVars, cacheVars, runsLeft, env>>

\* A call sent without await settles: the cache insert of line 223, the hit_count
\* update of line 209, or the hook request of line 335, whose outcome is only logged
DetachedSettle(d) ==
    /\ d \in detached
    /\ detached' = detached \ {d}
    /\ \E ok \in Outcomes("store") :
          embedding_cache' =
              IF ~ok \/ d.kind = "hook" THEN embedding_cache
              ELSE IF d.kind = "insert"
              THEN IF d.query_hash \in DOMAIN embedding_cache THEN embedding_cache
                   ELSE [h \in DOMAIN embedding_cache \cup {d.query_hash} |->
                            IF h = d.query_hash
                            THEN [embedding |-> d.embedding, hit_count |-> 0]
                            ELSE embedding_cache[h]]
              ELSE IF d.query_hash \in DOMAIN embedding_cache
              THEN [embedding_cache EXCEPT ![d.query_hash].hit_count = d.hit_count]
              ELSE embedding_cache
    /\ UNCHANGED <<now, vi, breakerVars, bcVars, rateVars, rcVars, hEmbed, rqVars>>

----------------------------------------------------------------------------
(* Specifications *)

\* The state after the module is loaded: a closed breaker, empty tables
InitProgram ==
    /\ now = 0
    /\ geminiBreaker = CircuitBreaker
    /\ hConsec = 0
    /\ hLastFail = 0
    /\ hTrials = 0
    /\ user_rate_limits = <<>>
    /\ hIncr = [u \in Users |-> 0]
    /\ hReqs = [u \in Users |-> 0]
    /\ hFirst = [u \in Users |-> -1]
    /\ hHealthy = [u \in Users |-> TRUE]
    /\ hFailCaps = {}
    /\ embedding_cache = <<>>
    /\ detached = {}
    /\ hEmbed = <<>>

InitBreaker ==
    /\ InitProgram
    /\ vi = ViOff
    /\ rq = [r \in Reqs |-> RqOff]
    /\ runsLeft = 0
    /\ env = Faults
    /\ bc = [c \in Callers |-> BcIdle]
    /\ bcCalls = 0
    /\ rc = [c \in Callers |-> RcOff]
    /\ rlBudget = 0

NextBreaker ==
    \/ \E c \in Callers : ExecuteCall(c)
    \/ \E c \in Callers : ExecuteSettle(c)
    \/ Tick

SpecBreaker == InitBreaker /\ [][NextBreaker]_vars

\* Time advances, callers keep calling execute and every operation settles
SpecBreakerFair ==
    /\ InitBreaker /\ [][NextBreaker]_vars
    /\ WF_vars(Tick)
    /\ WF_vars(\E c \in Callers : ExecuteCall(c))
    /\ \A c \in Callers : WF_vars(ExecuteSettle(c))

\* Concurrent calls of checkRateLimit
InitRate ==
    /\ InitProgram
    /\ vi = ViOff
    /\ rq = [r \in Reqs |-> RqOff]
    /\ runsLeft = 0
    /\ env = Faults
    /\ bc = [c \in Callers |-> BcIdle]
    /\ bcCalls = MaxCalls
    /\ rc = [c \in Callers |-> RcIdle]
    /\ rlBudget = MaxRlCalls

\* One caller: the calls of checkRateLimit follow one another
InitRateSeq ==
    /\ InitProgram
    /\ vi = ViOff
    /\ rq = [r \in Reqs |-> RqOff]
    /\ runsLeft = 0
    /\ env = Faults
    /\ bc = [c \in Callers |-> BcIdle]
    /\ bcCalls = MaxCalls
    /\ rc = [c \in Callers |-> IF c = 1 THEN RcIdle ELSE RcOff]
    /\ rlBudget = MaxSeqCalls

NextRate ==
    \/ \E c \in Callers, u \in Users : RateCall(c, u)
    \/ \E c \in Callers : RateSelect(c)
    \/ \E c \in Callers : RateWrite(c)
    \/ Tick

\* The rows the table user_rate_limits holds when the function starts: none, or
\* the window a user filled up to one request below the limit
StoredWindows ==
    {<<>>, [u \in {"u1"} |-> [request_count |-> RATE_LIMIT_COUNT - 1, window_start |-> 0]]}

InitRouter(faults, runs) ==
    /\ now = 0
    /\ geminiBreaker = CircuitBreaker
    /\ hConsec = 0
    /\ hLastFail = 0
    /\ hTrials = 0
    /\ hFailCaps = {}
    /\ user_rate_limits \in StoredWindows
    /\ hIncr = [u \in Users |-> IF u \in DOMAIN user_rate_limits
                                THEN user_rate_limits[u].request_count - 1 ELSE 0]
    /\ hReqs = [u \in Users |-> 0]
    /\ hFirst = [u \in Users |-> -1]
    /\ hHealthy = [u \in Users |-> TRUE]
    /\ embedding_cache = <<>>
    /\ detached = {}
    /\ hEmbed = <<>>
    /\ bc = [c \in Callers |-> BcIdle]
    /\ bcCalls = MaxCalls
    /\ rc = [c \in Callers |-> RcOff]
    /\ rlBudget = 0
    /\ rq = [r \in Reqs |-> IF r = 1 THEN RqIdle ELSE RqOff]
    /\ runsLeft = runs
    /\ env = faults
    /\ vi = ViOff

\* runAgentRouter calls that follow one another; every collaborator may fail
Init == InitRouter(Faults, MaxSeqRuns)

\* runAgentRouter calls that follow one another during an outage of the Gemini
\* service; the store and the message delivery work
InitOutage == InitRouter({"gemini"}, MaxOutageRuns)

Next ==
    \/ \E r \in Reqs, u \in {"u1", NoUser}, m \in DOMAIN Messages : StartRequest(r, u, m)
    \/ \E r \in Reqs : GetUser(r)
    \/ \E r \in Reqs : RlSelect(r)
    \/ \E r \in Reqs : RlWrite(r)
    \/ \E r \in Reqs : SendThrottle(r)
    \/ \E r \in Reqs : SendInvalid(r)
    \/ \E r \in Reqs : Classify(r)
    \/ \E r \in Reqs : CacheSelect(r)
    \/ \E r \in Reqs : Embed(r)
    \/ \E r \in Reqs : Rpc(r)
    \/ \E r \in Reqs : GenOpen(r)
    \/ \E r \in Reqs : GenChunk(r)
    \/ \E r \in Reqs : GenSend(r)
    \/ \E r \in Reqs : GenFlush(r)
    \/ \E r \in Reqs : SendFallback(r)
    \/ \E r \in Reqs : SendFallbackCatch(r)
    \/ \E r \in Reqs : Checkpoint(r)
    \/ \E r \in Reqs : Audit(r)
    \/ \E d \in detached : DetachedSettle(d)
    \/ Tick

\* Concurrent calls of checkRateLimit that find the stored windows
InitRateFull ==
    /\ now = 0
    /\ geminiBreaker = CircuitBreaker
    /\ hConsec = 0
    /\ hLastFail = 0
    /\ hTrials = 0
    /\ hFailCaps = {}
    /\ user_rate_limits \in StoredWindows
    /\ hIncr = [u \in Users |-> IF u \in DOMAIN user_rate_limits
                                THEN user_rate_limits[u].request_count - 1 ELSE 0]
    /\ hReqs = [u \in Users |-> 0]
    /\ hFirst = [u \in Users |-> -1]
    /\ hHealthy = [u \in Users |-> TRUE]
    /\ embedding_cache = <<>>
    /\ detached = {}
    /\ hEmbed = <<>>
    /\ bc = [c \in Callers |-> BcIdle]
    /\ bcCalls = MaxCalls
    /\ rc = [c \in Callers |-> RcIdle]
    /\ rlBudget = MaxFullCalls
    /\ rq = [r \in Reqs |-> RqOff]
    /\ runsLeft = 0
    /\ env = Faults
    /\ vi = ViOff

\* The characters the short arguments of validateInput are made of: a space, the
\* control character BEL, the letter a
ValidateAlphabet == {32, 7, 97}

\* The arguments of validateInput: every text of up to MaxMsgLen characters of the
\* alphabet, and the message one character above MAX_INPUT_LENGTH
ValidateInputs ==
    UNION {[1 .. n -> ValidateAlphabet] : n \in 0 .. MaxMsgLen} \cup {Messages[3]}

\* One call of validateInput on each argument
InitValidate ==
    /\ InitProgram
    /\ rq = [r \in Reqs |-> RqOff]
    /\ runsLeft = 0
    /\ env = Faults
    /\ bc = [c \in Callers |-> BcIdle]
    /\ bcCalls = MaxCalls
    /\ rc = [c \in Callers |-> RcOff]
    /\ rlBudget = 0
    /\ vi \in {[ViOff EXCEPT !.pc = "call", !.message = m] : m \in ValidateInputs}

NextValidate == Validate

SpecValidate == InitValidate /\ [][NextValidate]_vars

Spec == Init /\ [][Next]_vars
SpecOutage == InitOutage /\ [][Next]_vars

\* A step of the runAgentRouter call r: one of the calls it awaits settles
RequestStep(r) ==
    \/ GetUser(r) \/ RlSelect(r) \/ RlWrite(r) \/ SendThrottle(r) \/ SendInvalid(r)
    \/ Classify(r) \/ CacheSelect(r) \/ Embed(r) \/ Rpc(r)
    \/ GenOpen(r) \/ GenChunk(r) \/ GenSend(r) \/ GenFlush(r)
    \/ SendFallback(r) \/ SendFallbackCatch(r) \/ Checkpoint(r) \/ Audit(r)

\* Every call a request awaits settles, with a result or an error; the calls sent
\* without await may stay pending for ever
SpecAwaited ==
    /\ InitRouter(Faults \cup {"hook"}, MaxSeqRuns) /\ [][Next]_vars
    /\ \A r \in Reqs : WF_vars(RequestStep(r))

SpecRate == InitRate /\ [][NextRate]_vars
SpecRateSeq == InitRateSeq /\ [][NextRate]_vars
SpecRateFull == InitRateFull /\ [][NextRate]_vars

----------------------------------------------------------------------------
(* Claims about the circuit breaker *)

\* C1: after 5 consecutive failed operations, every execute call made before the
\* 60 s cooldown has elapsed since the last failure returns the fallback without
\* invoking its operation.
C1_OpenReturnsFallback ==
    \A c \in Callers : bc[c].cooling => bc[c].res = "skipped"

\* C1 witness: a call made within the cooldown after 5 consecutive failures was
\* answered without its operation being invoked, the breaker being OPEN.
C1_Witness ==
    \E c \in Callers : bc[c].cooling /\ bc[c].res = "skipped" /\ geminiBreaker.state = "OPEN"

\* C2: while the breaker is HALF_OPEN exactly one trial operation has been invoked,
\* whatever the interleaving of the execute calls.
C2_SingleTrial ==
    geminiBreaker.state = "HALF_OPEN" => hTrials = 1

----------------------------------------------------------------------------
(* Claims about the rate limiter *)

\* Callers of user u that have read the window and not yet written it
BetweenReadAndWrite(u) == {c \in Callers : rc[c].pc = "write" /\ rc[c].user = u}

\* C4: the read-then-write sequences of one user never interleave, no increment of
\* the request count is lost and at most 10 requests are counted in one window.
C4_Serialized ==
    \A u \in Users :
        /\ Cardinality(BetweenReadAndWrite(u)) <= 1
        /\ u \in DOMAIN user_rate_limits =>
              /\ user_rate_limits[u].request_count = 1 + hIncr[u]
              /\ 1 + hIncr[u] <= RATE_LIMIT_COUNT

\* The step completes the checkRateLimit call of caller c
Completes(c) == rc[c].pc \in {"select", "write"} /\ rc'[c].pc = "idle"

\* Date.now() of line 174 for the call that completes in this step
DecisionTime(c) == IF rc[c].pc = "write" THEN rc[c].t ELSE now

\* The call of c that completes was decided within one window length of the
\* first call of its user
InFirstWindow(c) == DecisionTime(c) - hFirst[rc[c].user] <= RATE_LIMIT_WINDOW_MS

\* C5 (as stated): of the calls a user issues one after another inside one window,
\* the 1st to 10th are allowed and the 11th and later are denied.
C5_TenthAllowedEleventhDenied ==
    [][\A c \in Callers :
          (Completes(c) /\ InFirstWindow(c))
              => (rc'[c].res <=> hReqs[rc[c].user] <= RATE_LIMIT_COUNT)]_vars

\* C5 (amended): the same, as long as every store read and write of the user's
\* calls succeeded.
C5_Amended ==
    [][\A c \in Callers :
          (Completes(c) /\ InFirstWindow(c) /\ hHealthy'[rc[c].user])
              => (rc'[c].res <=> hReqs[rc[c].user] <= RATE_LIMIT_COUNT)]_vars

\* C5 witness: the 11th call of a user, made inside the window of the first with
\* every store operation successful, completed denied.
C5_Witness ==
    \E c \in Callers :
        LET u == rc[c].user
        IN  /\ rc[c].pc = "idle" /\ ~rc[c].res
            /\ hReqs[u] = RATE_LIMIT_COUNT + 1
            /\ hHealthy[u]
            /\ now - hFirst[u] <= RATE_LIMIT_WINDOW_MS

\* The window of user u is count = 1 with start time t
FreshWindow(tbl, u, t) ==
    /\ u \in DOMAIN tbl
    /\ tbl[u] = [request_count |-> 1, window_start |-> t]

\* C6 (as stated): a request that arrives when the age of its user's window exceeds
\* 60 s is allowed and leaves the stored window at count = 1 with a fresh start.
C6_ExpiredWindowReset ==
    [][\A c \in Callers :
          (Completes(c) /\ rc[c].arrExp)
              => /\ rc'[c].res
                 /\ FreshWindow(user_rate_limits', rc[c].user, DecisionTime(c))]_vars

\* C6 (amended): a request whose read succeeds and finds a window older than 60 s
\* goes on to the update and is allowed; when that update succeeds the stored
\* window is count = 1 with the start time the request took, whatever the count was.
C6_Amended ==
    [][\A c \in Callers :
          /\ (/\ rc[c].pc = "select" /\ rc'[c].pc # "select" /\ rc'[c].rok
              /\ Expired(user_rate_limits, rc[c].user, now))
                 => rc'[c].pc = "write"
          /\ (rc[c].pc = "write" /\ rc[c].readExp /\ rc'[c].pc = "idle")
                 => /\ rc'[c].res
                    /\ rc'[c].wok
                          => FreshWindow(user_rate_limits', rc[c].user, rc[c].t)]_vars

\* C6 witness: a call that read an expired window holding a count at the limit
\* completed allowed, and its update left count = 1 with a later start time.
C6_Witness ==
    \E c \in Callers :
        LET u == rc[c].user
        IN  /\ rc[c].pc = "idle" /\ rc[c].res /\ rc[c].wok
            /\ rc[c].op.kind = "reset"
            /\ rc[c].seen = RATE_LIMIT_COUNT
            /\ u \in DOMAIN user_rate_limits
            /\ user_rate_limits[u].request_count = 1
            /\ user_rate_limits[u].window_start > RATE_LIMIT_WINDOW_MS

----------------------------------------------------------------------------
(* Claims about runAgentRouter *)

\* C3: a call to one capability is answered with its fallback without being
\* invoked only on account of failures of that same capability.
C3_IndependentBreakers ==
    \A r \in Reqs : \A s \in rq[r].skips : s.blame \subseteq {s.service}

\* C7: a request that passed the rate-limit check and the validation has sent
\* exactly one ai_interactions insert when it ends, and never more than one.
C7_OneInteractionRecord ==
    \A r \in Reqs :
        /\ Len(rq[r].audits) <= 1
        /\ (rq[r].pc = "done" /\ rq[r].passed) => Len(rq[r].audits) = 1

\* C8: classifyLegalSpecialty never throws to runAgentRouter and every label it
\* yields is one of the four labels.
C8_ClassificationNeverThrows ==
    \A r \in Reqs :
        /\ rq[r].err # Classification
        /\ rq[r].specialty # "" => rq[r].specialty \in Labels

\* C9: runAgentRouter rejects only with the error of a failed message delivery.
C9_OnlyDeliveryErrors ==
    \A r \in Reqs : rq[r].out = "threw" => rq[r].err = "delivery"

\* C10: a request that ends on the zero-fragment path has delivered the handoff
\* notice naming the determined specialty.
C10_HandoffNoticeDelivered ==
    \A r \in Reqs :
        (rq[r].pc = "done" /\ rq[r].ckpts > 0)
            => \E i \in 1 .. Len(rq[r].sent) : rq[r].sent[i] = HandoffNotice(rq[r].specialty)

\* The elements of a sequence
Range(s) == {s[i] : i \in 1 .. Len(s)}

\* retrieveRAGContext returned to the request, and returned no fragment
RetrievedNone(q) == "retrieval.end" \in Range(q.stages) /\ q.frags = <<>>

\* retrieveRAGContext returned at least one fragment to the request
RetrievedSome(q) == "retrieval.end" \in Range(q.stages) /\ Len(q.frags) > 0

IsHandoffEffect(e) == e.kind \in {"checkpoint", "hook"}

C12_AugmentAudit ==
    \A r \in Reqs :
        LET q == rq[r]
        IN  (/\ RetrievedSome(q) /\ q.pc \in {"audit", "done"} /\ q.audits # <<>>
             /\ q.audits[1].response_text # FALLBACK_AUGMENTATION_TEXT)
               => /\ Len(q.audits) = 1
                  /\ q.audits[1].path_langgraph_recorrido =
                         <<RouterStage(q.specialty), "RAG_Executed", "Augmentation">>
                  /\ q.audits[1].rag_fragments_ids = q.frags
                  /\ q.ckpts = 0 /\ q.hooks = 0
                  /\ SelectSeq(q.effects, IsHandoffEffect) = <<>>

\* C12 witness: a request that retrieved the fragments f2, f1 and streamed an
\* answer ended with its audit record.
C12_Witness ==
    \E r \in Reqs :
        /\ rq[r].pc = "done" /\ rq[r].frags = <<"f2", "f1">>
        /\ Len(rq[r].audits) = 1
        /\ rq[r].audits[1].response_text = <<"chunk text", "chunk text">>
        /\ rq[r].audits[1].rag_fragments_ids = <<"f2", "f1">>

IsPrefix(s, t) == Len(s) <= Len(t) /\ SubSeq(t, 1, Len(s)) = s

BeforeBranch ==
    <<"rate_limit", "rate_limit.end", "validation", "validation.end",
      "classification", "classification.end", "retrieval", "retrieval.end">>
AugmentRun == BeforeBranch \o <<"augmentation", "augmentation.end", "audit", "audit.end">>
HandoffRun == BeforeBranch \o <<"handoff", "handoff.end", "audit", "audit.end">>

\* C13: the stages of a request begin and end in the order rate limit, validation,
\* classification, retrieval, one of augmentation and handoff, audit, each after
\* the one before it has ended and none twice; a request that passed validation
\* and returns has run them all.
C13_StageOrder ==
    \A r \in Reqs :
        /\ IsPrefix(rq[r].stages, AugmentRun) \/ IsPrefix(rq[r].stages, HandoffRun)
        /\ (rq[r].pc = "done" /\ rq[r].out = "returned" /\ rq[r].passed)
              => rq[r].stages \in {AugmentRun, HandoffRun}

\* C13 witness: a request ran through the augmentation and ended with the audit.
C13_Witness ==
    \E r \in Reqs : rq[r].pc = "done" /\ rq[r].stages = AugmentRun

\* C14: a request checkRateLimit denies sends the throttling notice once and ends;
\* no validation, classification, retrieval, generation, checkpoint, hook or audit
\* insert is executed for it.
C14_DeniedStopsAfterNotice ==
    \A r \in Reqs :
        LET q == rq[r]
        IN  q.denied =>
               /\ q.stages = <<"rate_limit", "rate_limit.end">>
               /\ ~q.passed /\ q.invoked = {} /\ q.skips = {}
               /\ q.effects = <<>> /\ q.audits = <<>> /\ q.ckpts = 0 /\ q.hooks = 0
               /\ q.pc \in {"send_throttle", "done"}
               /\ q.pc = "send_throttle" => q.sent = <<>>
               /\ q.pc = "done" =>
                     \/ q.out = "returned" /\ q.sent = <<THROTTLE_NOTICE>> /\ ~q.sendFail
                     \/ q.out = "threw" /\ q.err = "delivery" /\ q.sent = <<>> /\ q.sendFail

\* C14 witness: a denied request ended having delivered the throttling notice.
C14_Witness ==
    \E r \in Reqs :
        rq[r].denied /\ rq[r].pc = "done" /\ rq[r].sent = <<THROTTLE_NOTICE>>

\* The message of the request is shorter than the minimum or longer than the
\* maximum once trimmed
TooShort(m) == Len(trim(m)) < MIN_INPUT_LENGTH
TooLong(m) == Len(trim(m)) > MAX_INPUT_LENGTH

\* C15: for a message whose trimmed length is below 5 or above 2000 validateInput
\* fails with the error of that kind, and classification, retrieval, augmentation,
\* handoff and audit are not executed for the request.
C15_InvalidStopsPipeline ==
    \A r \in Reqs :
        LET q == rq[r]
            m == Messages[q.msg]
            v == validateInput(m)
        IN  (q.pc \notin {"off", "idle"} /\ (TooShort(m) \/ TooLong(m))) =>
               /\ ~v.ok
               /\ TooShort(m) => v.error = "Validation Error: Message too short."
               /\ TooLong(m) => v.error = "Validation Error: Message exceeds 2000 characters."
               /\ Range(q.stages) \subseteq
                      {"rate_limit", "rate_limit.end", "validation", "validation.end"}
               /\ ~q.passed /\ q.invoked = {} /\ q.skips = {}
               /\ q.effects = <<>> /\ q.audits = <<>> /\ q.ckpts = 0 /\ q.hooks = 0

\* C15 witness: a request with a message of 2001 characters was validated and ended.
C15_Witness ==
    \E r \in Reqs :
        /\ rq[r].pc = "done" /\ TooLong(Messages[rq[r].msg])
        /\ "validation.end" \in Range(rq[r].stages)

\* C16: the notice sent for a message that fails validation is the too-long notice
\* when the message is too long and the too-short notice when it is too short.
C16_NoticeNamesBound ==
    \A r \in Reqs :
        LET q == rq[r]
            m == Messages[q.msg]
        IN  (q.pc = "done" /\ "validation.end" \in Range(q.stages) /\ ~q.passed
             /\ q.sent # <<>>)
               => q.sent = <<IF TooLong(m) THEN TOO_LONG_NOTICE ELSE TOO_SHORT_NOTICE>>

\* Number of the messages of sent that are the text t
RECURSIVE Count(_, _)
Count(sent, t) ==
    IF sent = <<>> THEN 0
    ELSE (IF Head(sent) = t THEN 1 ELSE 0) + Count(Tail(sent), t)

\* C17: a request whose augmented response is the fallback text has delivered that
\* text exactly once.
C17_FallbackOnce ==
    \A r \in Reqs :
        LET q == rq[r]
        IN  (/\ RetrievedSome(q) /\ q.pc \in {"audit", "done"} /\ q.audits # <<>>
             /\ q.audits[1].response_text = FALLBACK_AUGMENTATION_TEXT)
               => Count(q.sent, FALLBACK_AUGMENTATION_TEXT) = 1

RECURSIVE Flatten(_)
Flatten(ss) == IF ss = <<>> THEN <<>> ELSE Head(ss) \o Flatten(Tail(ss))

\* C18: while the stream is read the buffer holds fewer than 150 characters after
\* every token, a chunk is being sent exactly when it reached 150, no delivered
\* chunk is empty, the delivered chunks followed by the buffer are the text read so
\* far, and the chunks delivered for a completed stream concatenate to the
\* response text.
C18_StreamedChunks ==
    \A r \in Reqs :
        LET q == rq[r]
        IN  /\ q.pc = "gen_chunk" => TextLen(q.buf) < CHUNK_SIZE
            /\ q.pc = "gen_send" => TextLen(q.buf) >= CHUNK_SIZE
            /\ q.pc = "gen_flush" => TextLen(q.buf) > 0 /\ TextLen(q.buf) < CHUNK_SIZE
            /\ q.pc \in {"gen_chunk", "gen_send", "gen_flush"} =>
                  /\ Flatten(q.sent) \o q.buf = q.full
                  /\ \A i \in 1 .. Len(q.sent) : TextLen(q.sent[i]) > 0
            /\ (/\ RetrievedSome(q) /\ q.pc \in {"audit", "done"} /\ q.audits # <<>>
                /\ q.audits[1].response_text # FALLBACK_AUGMENTATION_TEXT)
                  => /\ Flatten(q.sent) = q.audits[1].response_text
                     /\ \A i \in 1 .. Len(q.sent) : TextLen(q.sent[i]) > 0

\* C18 witness: a stream of two tokens of 100 characters was delivered as one chunk
\* of 200 characters and completed.
C18_Witness ==
    \E r \in Reqs :
        /\ rq[r].pc = "done" /\ rq[r].out = "returned"
        /\ rq[r].sent = <<<<"chunk text", "chunk text">>>>
        /\ rq[r].audits # <<>>
        /\ rq[r].audits[1].response_text = <<"chunk text", "chunk text">>

\* C19: a request whose query embedding is the fallback vector gets no fragment and
\* the match_legal_documents call is not made for it.
C19_NoSearchOnFallback ==
    \A r \in Reqs :
        rq[r].qemb = FALLBACK_EMBEDDING =>
            /\ \A i \in 1 .. Len(rq[r].effects) : rq[r].effects[i].kind # "rpc"
            /\ rq[r].frags = <<>>
            /\ rq[r].pc # "rpc"

\* C19 witness: embedContent was invoked, returned 768 zeros, and the request went
\* on to the handoff.
C19_Witness ==
    \E r \in Reqs :
        /\ rq[r].qemb = FALLBACK_EMBEDDING
        /\ Embedding \in rq[r].invoked
        /\ rq[r].pc = "done" /\ rq[r].ckpts = 1

\* C20: no request ends with an error raised while retrieveRAGContext ran.
C20_RetrievalNeverThrows ==
    \A r \in Reqs : rq[r].err # Embedding

\* query_hash of the request's sanitized message
QueryHash(q) == createMD5Hash(Sanitized(q))

\* C21 as stated: for one query the embedding computation returns a vector at
\* most once, every later call being served from the cache.
C21_ComputedAtMostOnce ==
    \A h \in DOMAIN hEmbed : hEmbed[h].calls <= 1

\* C21 amended: a call whose cache read finds the query's entry returns the stored
\* vector, which an earlier call for the same query computed, and does not enter
\* the embedding computation.
C21_Amended ==
    \A r \in Reqs :
        LET q == rq[r]
        IN  q.cacheHit
               => /\ QueryHash(q) \in DOMAIN embedding_cache
                  /\ q.qemb = embedding_cache[QueryHash(q)].embedding
                  /\ QueryHash(q) \in DOMAIN hEmbed
                  /\ q.qemb \in hEmbed[QueryHash(q)].vectors
                  /\ Embedding \notin q.invoked \cup q.skips

\* C21 witness: the second call for a query ended after it was served from the
\* cache, the embedding having been computed once.
C21_Witness ==
    \E r \in Reqs :
        /\ rq[r].cacheHit /\ rq[r].pc = "done"
        /\ hEmbed[QueryHash(rq[r])].calls = 1

\* C22: no entry of the embedding cache holds the fallback vector.
C22_NoFallbackCached ==
    \A h \in DOMAIN embedding_cache : embedding_cache[h].embedding # FALLBACK_EMBEDDING

\* C22 witness: the model returned the all-zero vector for a query in one call and
\* another vector in a second call, and the cache holds an entry for the query.
C22_Witness ==
    \E h \in DOMAIN hEmbed \cap DOMAIN embedding_cache :
        /\ FALLBACK_EMBEDDING \in hEmbed[h].vectors
        /\ hEmbed[h].calls = 2

\* C23: a request in which a message delivery failed ends by rejecting with the
\* delivery error.
C23_DeliveryFailureSurfaces ==
    \A r \in Reqs :
        (rq[r].pc = "done" /\ rq[r].sendFail)
            => (rq[r].out = "threw" /\ rq[r].err = "delivery")

\* A call of execute settles for caller c
Settles(c) == bc[c].pc = "inflight" /\ bc'[c].pc = "idle"

\* C24: a call that succeeds leaves the breaker CLOSED with failures = 0 and the
\* caller gets the operation's result; the breaker opens only when failureThreshold
\* failures came with no success between them.
C24_SuccessCloses ==
    [][/\ \A c \in Callers :
             (Settles(c) /\ bc'[c].res = "result")
                 => /\ geminiBreaker.state \in {"CLOSED", "HALF_OPEN", "OPEN"}
                    /\ geminiBreaker'.state = "CLOSED"
                    /\ geminiBreaker'.failures = 0
                    /\ hConsec' = 0
       /\ (geminiBreaker.state # "OPEN" /\ geminiBreaker'.state = "OPEN")
             => hConsec' >= failureThreshold]_vars

\* C24 witness: the breaker refused one caller while OPEN and a later trial
\* succeeded, leaving it CLOSED with no failure counted.
C24_Witness ==
    /\ geminiBreaker.state = "CLOSED" /\ geminiBreaker.failures = 0
    /\ geminiBreaker.lastFailTime < now
    /\ \E c, d \in Callers : bc[c].res = "result" /\ bc[d].res = "skipped"

\* C25: the error of a failed operation is rethrown exactly when the breaker was
\* CLOSED and the failure left the count below failureThreshold; every other
\* failure returns the fallback.
C25_ErrorBelowThreshold ==
    [][\A c \in Callers :
          (Settles(c) /\ bc'[c].res \in {"error", "fallback"})
              => (bc'[c].res = "error"
                     <=> (geminiBreaker.state = "CLOSED"
                          /\ geminiBreaker.failures + 1 < failureThreshold))]_vars

\* C25 witness: one caller got the error of a failure below the threshold and
\* another the fallback of the failure that reached it.
C25_Witness ==
    /\ geminiBreaker.state = "OPEN" /\ geminiBreaker.failures = failureThreshold
    /\ \E c, d \in Callers : bc[c].res = "error" /\ bc[d].res = "fallback"

\* C26: a trial that fails in HALF_OPEN leaves the breaker OPEN with lastFailTime
\* the time of that failure, and the caller gets the fallback.
C26_FailedTrialReopens ==
    [][\A c \in Callers :
          (/\ Settles(c) /\ bc'[c].res \in {"error", "fallback"}
           /\ geminiBreaker.state = "HALF_OPEN")
              => /\ geminiBreaker'.state = "OPEN"
                 /\ geminiBreaker'.lastFailTime = now
                 /\ bc'[c].res = "fallback"]_vars

\* C26 witness: the trial started after the cooldown failed and the breaker is
\* OPEN again with the time of that failure.
C26_Witness ==
    /\ geminiBreaker.state = "OPEN" /\ geminiBreaker.failures > failureThreshold
    /\ geminiBreaker.lastFailTime = now /\ now > timeout
    /\ \E c \in Callers : bc[c].res = "fallback"

\* The select of caller c settles without error on a row at the limit inside its
\* window
ReadsFullWindow(c) ==
    /\ rc[c].pc = "select" /\ rc'[c].pc # "select"
    /\ rc'[c].rok
    /\ rc[c].user \in DOMAIN user_rate_limits
    /\ user_rate_limits[rc[c].user].request_count >= RATE_LIMIT_COUNT
    /\ ~Expired(user_rate_limits, rc[c].user, now)

\* C27: the call that finds the limit reached inside the window is denied without
\* a write, and a denied call leaves every user's stored count and window start
\* as they were.
C27_DenialWritesNothing ==
    [][\A c \in Callers :
          /\ ReadsFullWindow(c)
                => /\ rc'[c].pc = "idle" /\ ~rc'[c].res
                   /\ user_rate_limits' = user_rate_limits
          /\ (Completes(c) /\ ~rc'[c].res)
                => user_rate_limits' = user_rate_limits]_vars

\* C27 witness: a call was denied and the user's row still holds the count
\* RATE_LIMIT_COUNT and the window start of the first request.
C27_Witness ==
    \E c \in Callers :
        /\ rc[c].pc = "idle" /\ ~rc[c].res /\ rc[c].rok
        /\ rc[c].user \in DOMAIN user_rate_limits
        /\ user_rate_limits[rc[c].user].request_count = RATE_LIMIT_COUNT
        /\ user_rate_limits[rc[c].user].window_start = hFirst[rc[c].user]

\* C28: when the select fails, checkRateLimit returns true and sends no write.
C28_ReadFailureAllows ==
    [][\A c \in Callers :
          (rc[c].pc = "select" /\ rc'[c].pc # "select" /\ ~rc'[c].rok)
              => /\ rc'[c].pc = "idle" /\ rc'[c].res
                 /\ rc'[c].op.kind = "none"
                 /\ user_rate_limits' = user_rate_limits]_vars

\* C28 witness: a call whose select failed returned true while the user has a row.
C28_Witness ==
    \E c \in Callers :
        /\ rc[c].pc = "idle" /\ ~rc[c].rok /\ rc[c].res
        /\ rc[c].user \in DOMAIN user_rate_limits

C30_HandoffRecordNoFragments ==
    \A r \in Reqs :
        \A i \in 1 .. Len(rq[r].audits) :
            "Handoff_Initiated" \in Range(rq[r].audits[i].path_langgraph_recorrido)
                => rq[r].audits[i].rag_fragments_ids = <<>>

\* C35: the breaker is CLOSED only with failures < failureThreshold and is OPEN or
\* HALF_OPEN only with failures >= failureThreshold.
C35_StateMatchesCount ==
    /\ geminiBreaker.state \in {"CLOSED", "OPEN", "HALF_OPEN"}
    /\ geminiBreaker.state = "CLOSED" <=> geminiBreaker.failures < failureThreshold

\* C35 witness: a trial is in flight while the breaker is HALF_OPEN, a concurrent
\* call having failed after the breaker opened.
C35_Witness ==
    /\ geminiBreaker.state = "HALF_OPEN"
    /\ geminiBreaker.failures > failureThreshold
    /\ \E c \in Callers : bc[c].pc = "inflight"

\* C36: no step takes the breaker from OPEN directly to CLOSED.
C36_NoOpenToClosed ==
    [][geminiBreaker.state = "OPEN" => geminiBreaker'.state # "CLOSED"]_vars

\* C31: the cost of the audit record is the classification usage plus the usage
\* the responder returned; on the zero-fragment path it is the classification usage
\* alone, and the responder's part is 0 when it returned FALLBACK_AUGMENTATION.
C31_AuditTokenCost ==
    \A r \in Reqs :
        LET q == rq[r]
        IN  (q.pc \in {"audit", "done"} /\ q.audits # <<>>)
               => /\ q.audits[1].cost_in_tokens = q.ctokens + q.gtokens
                  /\ q.ckpts > 0 => q.audits[1].cost_in_tokens = q.ctokens
                  /\ q.gfallback => (q.gtokens = 0 /\ q.audits[1].cost_in_tokens = q.ctokens)

\* C31 witness: a request classified with usage 3 whose generation reported usage
\* 5 ended with the cost 8 recorded.
C31_Witness ==
    \E r \in Reqs :
        /\ rq[r].pc = "done" /\ Len(rq[r].audits) = 1
        /\ rq[r].ctokens = 3 /\ rq[r].gtokens = 5
        /\ rq[r].audits[1].cost_in_tokens = 8

\* C32: when the ai_interactions insert settles, also with an error, runAgentRouter
\* returns without error and the step sends nothing: the messages delivered and the
\* side effects issued stay as they were.
C32_AuditFailureNonFatal ==
    [][\A r \in Reqs :
          (rq[r].pc = "audit" /\ rq'[r] # rq[r])
              => /\ rq'[r].pc = "done" /\ rq'[r].out = "returned" /\ rq'[r].err = "none"
                 /\ rq'[r].sent = rq[r].sent
                 /\ rq'[r].effects = rq[r].effects
                 /\ rq'[r].audits = rq[r].audits]_vars

\* C32 witness: a request whose audit insert failed has returned, the streamed
\* answer having been delivered once.
C32_Witness ==
    \E r \in Reqs :
        /\ rq[r].pc = "done" /\ rq[r].auditFail /\ rq[r].out = "returned"
        /\ rq[r].sent = <<<<"chunk text", "chunk text">>>>

\* The send of a streamed chunk (line 282 or 284) fails in request r
ChunkSendFails(r) ==
    /\ rq[r].pc \in {"gen_send", "gen_flush"}
    /\ ~rq[r].sendFail /\ rq'[r].sendFail

\* C38: a failed delivery of a streamed chunk changes neither the failure count
\* nor the state of the breaker.
C38_DeliveryNotCounted ==
    [][\A r \in Reqs : ChunkSendFails(r) => geminiBreaker' = geminiBreaker]_vars

\* C39: every stored request_count is between 1 and RATE_LIMIT_COUNT, however the
\* calls of checkRateLimit interleave.
C39_CountWithinLimit ==
    \A u \in DOMAIN user_rate_limits :
        /\ user_rate_limits[u].request_count >= 1
        /\ user_rate_limits[u].request_count <= RATE_LIMIT_COUNT

\* C39 witness: two calls read the count one below the limit before either wrote,
\* both updates were stored and a third call was denied on the full window.
C39_Witness ==
    /\ "u1" \in DOMAIN user_rate_limits
    /\ user_rate_limits["u1"].request_count = RATE_LIMIT_COUNT
    /\ \E c, d \in Callers :
          /\ c # d
          /\ rc[c].pc = "write" /\ rc[c].user = "u1" /\ rc[c].seen = RATE_LIMIT_COUNT - 1
          /\ rc[d].pc = "idle" /\ rc[d].user = "u1" /\ rc[d].seen = RATE_LIMIT_COUNT - 1
          /\ rc[d].op.kind = "count" /\ rc[d].wok

\* C40: whenever validateInput returns, the returned text holds no control
\* character and its length is between MIN_INPUT_LENGTH and MAX_INPUT_LENGTH.
C40_ValidatorPostcondition ==
    vi.pc = "returned"
        => /\ Range(vi.text) \cap ControlChars = {}
           /\ Len(vi.text) >= MIN_INPUT_LENGTH
           /\ Len(vi.text) <= MAX_INPUT_LENGTH

\* The hit_count update d, sent by a cache hit, is applied by the store in this step
HitUpdateApplied(d) ==
    /\ d \in detached /\ d.kind = "hit"
    /\ detached' = detached \ {d}
    /\ "store" \notin env
    /\ d.query_hash \in DOMAIN embedding_cache

\* C34: every hit_count update the store applies leaves the entry's counter one
\* above what it was, so that n applied updates raise it by n.
C34_HitCounterIncrements ==
    [][\A d \in detached :
          HitUpdateApplied(d)
              => embedding_cache'[d.query_hash].hit_count =
                     embedding_cache[d.query_hash].hit_count + 1]_vars

\* The runAgentRouter call r is running
Running(r) == rq[r].pc \notin {"off", "idle", "done"}

\* C33: the calls sent without await (hook request, cache insert, hit_count update)
\* neither block nor fail the request: a running request ends also when they stay
\* pending for ever, the request that sent the hook has sent its audit insert, and
\* the settling of such a call changes nothing of the request.
C33_DetachedNeverBlock ==
    /\ \A r \in Reqs : Running(r) ~> rq[r].pc = "done"
    /\ [](\A r \in Reqs : rq[r].hooks > 0 => Len(rq[r].audits) = 1)
    /\ [][(\E d \in detached : detached' = detached \ {d}) => rq' = rq]_vars

\* C33 witness: a request has returned with its audit record written while the hook
\* request it sent is still pending.
C33_Witness ==
    \E r \in Reqs :
        /\ rq[r].pc = "done" /\ rq[r].out = "returned" /\ rq[r].hooks = 1
        /\ Len(rq[r].audits) = 1
        /\ HookCall \in detached

\* The breaker is CLOSED with no failure counted
Recovered == geminiBreaker.state = "CLOSED" /\ geminiBreaker.failures = 0

\* An operation is in flight, or a further call of execute would invoke its
\* operation: the breaker is not OPEN, or the cooldown has elapsed
TrialAhead ==
    \/ \E c \in Callers : bc[c].pc = "inflight"
    \/ /\ bcCalls < MaxCalls
       /\ geminiBreaker.state # "OPEN" \/ now - geminiBreaker.lastFailTime > timeout

\* C37: while time advances, callers call and no further operation fails, the breaker
\* becomes CLOSED with failures = 0: from OPEN the cooldown elapses, and once an
\* operation is in flight or can be invoked, the breaker recovers unless another
\* failure is counted.
C37_BreakerRecovers ==
    /\ \A n \in 0 .. MaxCalls + 1 :
          (~Recovered /\ geminiBreaker.failures = n /\ TrialAhead)
              ~> (Recovered \/ geminiBreaker.failures > n)
    /\ \A k \in 0 .. MaxTicks :
          (/\ geminiBreaker.state = "OPEN"
           /\ geminiBreaker.lastFailTime = k * TickMs
           /\ k * TickMs + timeout < MaxTicks * TickMs)
              ~> (\/ geminiBreaker.state # "OPEN"
                  \/ geminiBreaker.lastFailTime # k * TickMs
                  \/ now - geminiBreaker.lastFailTime > timeout)

\* C37 witness: the breaker opened at time 0, the cooldown elapsed, and the trial
\* call succeeded: it is CLOSED with failures = 0 and no operation is in flight.
C37_Witness ==
    /\ Recovered
    /\ hLastFail = 0 /\ geminiBreaker.lastFailTime = 0 /\ now > timeout
    /\ bcCalls > failureThreshold
    /\ \A c \in Callers : bc[c].pc = "idle"
    /\ \E c \in Callers : bc[c].res = "result"

====
